---- MODULE Spec2Model ----
(***************************************************************************)
(* NTP health monitor (src/monitor.py): the polling loop of main(), the    *)
(* sampler check_ntp_health()/run_gps_status(), the three report parsers,  *)
(* the threshold evaluation, send_email() and db_insert_sample().          *)
(*                                                                         *)
(* Text is modelled as a sequence of symbols.  A symbol is one character   *)
(* (" ", ":", "*", "^", a digit) or one word that the code only ever       *)
(* treats as a unit ("Leap status", "Normal", "0.002", "MS", ...).  A      *)
(* report is a sequence of lines (the result of str.splitlines()).         *)
(* Offsets are counted in milliseconds, so 0.050 s is 50.                  *)
(***************************************************************************)
EXTENDS Integers, Sequences, FiniteSets, TLC

VARIABLES
    pc,          \* position of main(): which statement runs next
    DB_URL,      \* the module-level DB_URL (None when DATABASE_URL is unset)
    ok,          \* main's local `ok` (None before check_ntp_health returned)
    detail,      \* main's local `detail`
    evaluated,   \* did check_ntp_health reach its threshold checks (l.206-218)
    tracking,    \* local `tracking` of the function that is running
    sources,     \* local `sources` of the function that is running
    tr,          \* main's local `tr` (second pass, not yet parsed)
    gps,         \* the (gps_ok, gps_summary) pair last returned by run_gps_status
    calls,       \* Command Executor calls issued in this cycle, in order
    emails,      \* send_email calls made in this cycle, in order
    inserts,     \* db_insert_sample calls made in this cycle: row and outcome
    streak,      \* consecutive cycles, up to now, that ended in an alert
    streakMails, \* send_email calls made in those cycles
    pin,         \* parser harness: the input of the function under test
    pout         \* parser harness: its state / result

vars == <<pc, DB_URL, ok, detail, evaluated, tracking, sources, tr, gps, calls,
          emails, inserts, streak, streakMails, pin, pout>>

loopVars == <<pc, DB_URL, ok, detail, evaluated, tracking, sources, tr, gps,
              calls, emails, inserts, streak, streakMails>>

harnessVars == <<pin, pout>>

-----------------------------------------------------------------------------
(* Bounds of the model *)

\* Longest tracking report (in lines) given to parse_tracking on its own.
MaxTrackLines == 2

\* Longest gpspipe stream (in lines) given to parse_gpspipe_output on its own.
MaxGpsLines == 3

\* Longest run of consecutive alerting cycles that is counted; the count
\* starts again at the next cycle.
MaxStreak == 2

\* Longest sources report (in lines) given to parse_sources on its own.
MaxSrcLines == 3

\* Longest stdout (in lines) of the gpspipe command given to run_gps_status
\* on its own.
MaxOutLines == 2

-----------------------------------------------------------------------------
(* Python values *)

None == <<>>
Some(v) == <<v>>
Val(o) == o[1]

\* Every n-tuple over S with n <= max
SeqsUpTo(S, max) == UNION {[1..n -> S] : n \in 0..max}

-----------------------------------------------------------------------------
(* str methods, on sequences of symbols *)

WS == " "

RECURSIVE LStrip(_)
LStrip(s) == IF s # <<>> /\ Head(s) = WS THEN LStrip(Tail(s)) ELSE s

RECURSIVE RStrip(_)
RStrip(s) ==
    IF s # <<>> /\ s[Len(s)] = WS THEN RStrip(SubSeq(s, 1, Len(s) - 1)) ELSE s

\* str.strip()
Strip(s) == RStrip(LStrip(s))

\* str.startswith(p)
StartsWith(s, p) == Len(s) >= Len(p) /\ SubSeq(s, 1, Len(p)) = p

\* p in s
Contains(s, p) ==
    \E i \in 1..(Len(s) - Len(p) + 1) : SubSeq(s, i, i + Len(p) - 1) = p

\* len(s.split(':', 1)) > 1
HasColon(s) == \E i \in 1..Len(s) : s[i] = ":"

\* s.split(':', 1)[1], where it exists: what follows the first colon
RECURSIVE AfterColon(_)
AfterColon(s) == IF Head(s) = ":" THEN Tail(s) ELSE AfterColon(Tail(s))

\* s.split()[0] of a stripped, non-empty s
RECURSIVE FirstToken(_)
FirstToken(s) ==
    IF s = <<>> \/ Head(s) = WS THEN <<>> ELSE <<Head(s)>> \o FirstToken(Tail(s))

-----------------------------------------------------------------------------
(* int() and float() *)

Digits == {"2", "4", "5", "9"}

DigitVal(d) == CASE d = "2" -> 2 [] d = "4" -> 4 [] d = "5" -> 5 [] d = "9" -> 9

RECURSIVE Decimal(_)
Decimal(s) == IF s = <<>> THEN 0 ELSE 10 * Decimal(SubSeq(s, 1, Len(s) - 1)) + DigitVal(s[Len(s)])

\* int(s): None stands for ValueError.  int() strips whitespace itself.
IntParse(s) ==
    LET t == Strip(s)
    IN  IF t # <<>> /\ \A i \in 1..Len(t) : t[i] \in Digits
        THEN Some(Decimal(t)) ELSE None

\* The float literals of the model, each one symbol, with its value in ms.
FloatLiterals == {"0.002", "0.050", "0.051", "-0.060", "nan"}

NaN == [nan |-> TRUE, ms |-> 0]
Num(ms) == [nan |-> FALSE, ms |-> ms]

FloatVal(f) ==
    CASE f = "0.002" -> Num(2) [] f = "0.050" -> Num(50) [] f = "0.051" -> Num(51)
      [] f = "-0.060" -> Num(-60) [] f = "nan" -> NaN

\* float(tok) of a whitespace-free token: None stands for ValueError.
FloatParse(tok) ==
    IF Len(tok) = 1 /\ tok[1] \in FloatLiterals THEN Some(FloatVal(tok[1]))
    ELSE IF tok # <<>> /\ \A i \in 1..Len(tok) : tok[i] \in Digits
         THEN Some(Num(1000 * Decimal(tok)))
         ELSE None

\* abs(x) > bound on floats: every comparison with nan is False
AbsGreater(x, bound) ==
    /\ ~x.nan
    /\ (IF x.ms < 0 THEN 0 - x.ms ELSE x.ms) > bound

-----------------------------------------------------------------------------
(* parse_tracking *)

EmptyTracking == [leap_status |-> None, stratum |-> None, last_offset_sec |-> None]

\* Does the line make the for loop raise: split(':', 1)[1] is an IndexError
\* when the line has no colon, which `except ValueError` (Stratum) does not
\* catch and which nothing catches for Leap status.
LineRaises(raw) ==
    /\ \/ StartsWith(Strip(raw), <<"Leap status">>)
       \/ StartsWith(Strip(raw), <<"Stratum">>)
    /\ ~HasColon(Strip(raw))

\* int(...) of l.102, where the line has a colon
StratumOf(line) == IntParse(Strip(AfterColon(line)))

\* float(...split()[0]) of l.106-107; None when anything in the try raised
OffsetOf(line) ==
    IF ~HasColon(line) \/ Strip(AfterColon(line)) = <<>> THEN None
    ELSE FloatParse(FirstToken(Strip(AfterColon(line))))

\* One iteration of the for loop that does not raise: `result` after the line
TrackingLine(result, raw) ==
    IF StartsWith(Strip(raw), <<"Leap status">>) THEN
        [result EXCEPT !.leap_status = Some(Strip(AfterColon(Strip(raw))))]
    ELSE IF StartsWith(Strip(raw), <<"Stratum">>) THEN
        IF StratumOf(Strip(raw)) = None THEN result
        ELSE [result EXCEPT !.stratum = StratumOf(Strip(raw))]
    ELSE IF StartsWith(Strip(raw), <<"Last offset">>) THEN
        IF OffsetOf(Strip(raw)) = None THEN result
        ELSE [result EXCEPT !.last_offset_sec = OffsetOf(Strip(raw))]
    ELSE result

RECURSIVE TrackingLoop(_, _)
TrackingLoop(result, lines) ==
    IF lines = <<>> THEN [raised |-> FALSE, result |-> result]
    ELSE IF LineRaises(Head(lines)) THEN [raised |-> TRUE, result |-> result]
    ELSE TrackingLoop(TrackingLine(result, Head(lines)), Tail(lines))

\* parse_tracking(text): raised = an exception left the function
parse_tracking(text) == TrackingLoop(EmptyTracking, text)

-----------------------------------------------------------------------------
(* parse_sources *)

EmptySources == [has_selected |-> FALSE, selected_line |-> None, total_sources |-> 0]

\* s.startswith('^*') or '* ' in s or ' ^* ' in s
IsSelected(s) ==
    \/ StartsWith(s, <<"^", "*">>)
    \/ Contains(s, <<"*", WS>>)
    \/ Contains(s, <<WS, "^", "*", WS>>)

\* SourcesLine as it would be if the first selected line were kept
SourcesLineKeepsFirst(acc, raw) ==
    LET s == Strip(raw) IN
    IF s = <<>> \/ StartsWith(s, <<"MS">>) \/ StartsWith(s, <<"Name/IP">>) THEN acc
    ELSE [has_selected  |-> acc.has_selected \/ IsSelected(s),
          selected_line |-> IF IsSelected(s) /\ ~acc.has_selected
                            THEN Some(s) ELSE acc.selected_line,
          total_sources |-> acc.total_sources + 1]

\* SourcesLine as it would be if `total += 1` stood in an else branch of
\* the marker test
SourcesLineCountsUnselected(acc, raw) ==
    LET s == Strip(raw) IN
    IF s = <<>> \/ StartsWith(s, <<"MS">>) \/ StartsWith(s, <<"Name/IP">>) THEN acc
    ELSE [has_selected  |-> acc.has_selected \/ IsSelected(s),
          selected_line |-> IF IsSelected(s) THEN Some(s) ELSE acc.selected_line,
          total_sources |-> IF IsSelected(s) THEN acc.total_sources
                            ELSE acc.total_sources + 1]

\* One iteration of the for loop
SourcesLine(acc, raw) ==
    LET s == Strip(raw) IN
    IF s = <<>> \/ StartsWith(s, <<"MS">>) \/ StartsWith(s, <<"Name/IP">>) THEN acc
    ELSE [has_selected  |-> acc.has_selected \/ IsSelected(s),
          selected_line |-> IF IsSelected(s) THEN Some(s) ELSE acc.selected_line,
          total_sources |-> acc.total_sources + 1]

RECURSIVE SourcesLoop(_, _)
SourcesLoop(acc, lines) ==
    IF lines = <<>> THEN acc ELSE SourcesLoop(SourcesLine(acc, Head(lines)), Tail(lines))

parse_sources(text) == SourcesLoop(EmptySources, text)

-----------------------------------------------------------------------------
(* gpspipe output.  A line of it is a record:                              *)
(*   kind "blank"   nothing but whitespace                                 *)
(*   kind "noise"   text that does not start with '{'                      *)
(*   kind "badjson" starts with '{', json.loads raises                     *)
(*   kind "json"    starts with '{', json.loads returns the object obj     *)
(* Modes are JSON integers, as gpsd writes them.                           *)

NoObj == [class |-> "", mode |-> None, time |-> None, lat |-> None, lon |-> None]

BlankLine == [kind |-> "blank", text |-> "", obj |-> NoObj]
Noise(text) == [kind |-> "noise", text |-> text, obj |-> NoObj]
BadJson == [kind |-> "badjson", text |-> "{", obj |-> NoObj]
Json(class, mode, time, lat, lon) ==
    [kind |-> "json", text |-> "{",
     obj |-> [class |-> class, mode |-> mode, time |-> time, lat |-> lat, lon |-> lon]]

\* not line or not line.startswith('{')
SkippedUnparsed(line) == line.kind \in {"blank", "noise"}

\* json.loads(line) returned
JsonLoads(line) == line.kind = "json"

\* Python truthiness of obj.get(k): None is false, and so is the empty
\* value of its type (zero == "" for a string, 0 for a number)
Truthy(o, zero) == o # None /\ Val(o) # zero

\* a or b
Or(a, b, zero) == IF Truthy(a, zero) THEN a ELSE b

GpsStart ==
    [has_fix |-> FALSE, tpv_count |-> 0, last_mode |-> None,
     last_time |-> None, last_lat |-> None, last_lon |-> None]

\* TpvUpdate as it would be if the best mode seen won instead of the last
TpvUpdateBest(st, obj) ==
    [has_fix   |-> st.has_fix \/ (obj.mode # None /\ Val(obj.mode) >= 2),
     tpv_count |-> st.tpv_count + 1,
     last_mode |-> IF obj.mode # None /\ (st.last_mode = None \/ Val(obj.mode) > Val(st.last_mode))
                   THEN obj.mode ELSE st.last_mode,
     last_time |-> Or(obj.time, st.last_time, ""),
     last_lat  |-> Or(obj.lat, st.last_lat, 0),
     last_lon  |-> Or(obj.lon, st.last_lon, 0)]

\* The body of `if obj.get('class') == 'TPV':`
TpvUpdate(st, obj) ==
    [has_fix   |-> IF obj.mode # None THEN Val(obj.mode) >= 2 ELSE st.has_fix,
     tpv_count |-> st.tpv_count + 1,
     last_mode |-> IF obj.mode # None THEN obj.mode ELSE st.last_mode,
     last_time |-> Or(obj.time, st.last_time, ""),
     last_lat  |-> Or(obj.lat, st.last_lat, 0),
     last_lon  |-> Or(obj.lon, st.last_lon, 0)]

\* One iteration of the for loop of parse_gpspipe_output
GpsLine(st, line) ==
    IF SkippedUnparsed(line) THEN st
    ELSE IF ~JsonLoads(line) THEN st
    ELSE IF line.obj.class = "TPV" THEN TpvUpdate(st, line.obj)
    ELSE st

RECURSIVE GpsLoop(_, _)
GpsLoop(st, lines) ==
    IF lines = <<>> THEN st ELSE GpsLoop(GpsLine(st, Head(lines)), Tail(lines))

ModeText(m) ==
    CASE m = 0 -> "Unknown" [] m = 1 -> "No fix" [] m = 2 -> "2D fix"
      [] m = 3 -> "3D fix" [] OTHER -> "str(mode)"

\* A gps summary string: `text` then the parts that were appended.
Summary(text, mode, time, pos, head) ==
    [text |-> text, mode |-> mode, time |-> time, pos |-> pos, head |-> head]

EmptySummary == Summary("", "", None, None, <<>>)

\* GpsReturn as it would be if l.179 tested tpv_count instead of last_mode
GpsReturnOnAnyTpv(st) ==
    IF st.tpv_count > 0
    THEN [has_fix |-> st.has_fix,
          summary |-> Summary("GPS(TPV): ",
                              IF st.last_mode = None THEN "str(mode)"
                              ELSE ModeText(Val(st.last_mode)),
                              IF Truthy(st.last_time, "") THEN st.last_time ELSE None,
                              IF st.last_lat # None /\ st.last_lon # None
                              THEN Some(<<Val(st.last_lat), Val(st.last_lon)>>) ELSE None,
                              <<>>),
          tpv_count |-> st.tpv_count, last_mode |-> st.last_mode]
    ELSE [has_fix |-> FALSE, summary |-> EmptySummary,
          tpv_count |-> st.tpv_count, last_mode |-> st.last_mode]

\* The return statements of parse_gpspipe_output
GpsReturn(st) ==
    IF st.last_mode # None
    THEN [has_fix |-> st.has_fix,
          summary |-> Summary("GPS(TPV): ", ModeText(Val(st.last_mode)),
                              IF Truthy(st.last_time, "") THEN st.last_time ELSE None,
                              IF st.last_lat # None /\ st.last_lon # None
                              THEN Some(<<Val(st.last_lat), Val(st.last_lon)>>) ELSE None,
                              <<>>),
          tpv_count |-> st.tpv_count, last_mode |-> st.last_mode]
    ELSE [has_fix |-> FALSE, summary |-> EmptySummary,
          tpv_count |-> st.tpv_count, last_mode |-> st.last_mode]

parse_gpspipe_output(text) == GpsReturn(GpsLoop(GpsStart, text))

-----------------------------------------------------------------------------
(* The Command Executor: what run_ssh can give back *)

\* subprocess.TimeoutExpired, raised again by run_ssh
Timeout == [timeout |-> TRUE, rc |-> 0, stdout |-> <<>>, stderr |-> <<>>]

\* a CompletedProcess
Completed(rc, stdout, stderr) ==
    [timeout |-> FALSE, rc |-> rc, stdout |-> stdout, stderr |-> stderr]

\* _head(text, n=3): the first three lines that are not blank
FirstThree(nb) == SubSeq(nb, 1, IF Len(nb) < 3 THEN Len(nb) ELSE 3)

NotBlankText(l) == Strip(l) # <<>>

NotBlankGps(l) == l.kind # "blank"

\* _head of chronyc text
HeadOf(text) == FirstThree(SelectSeq(text, NotBlankText))

\* _head of gpspipe output
HeadOfGps(lines) == FirstThree(SelectSeq(lines, NotBlankGps))

NotFoundMarker == Noise("gpspipe-not-found")

\* run_gps_status as it would be if l.142 tested the exit code alone
run_gps_statusExitOnly(cp) ==
    IF cp.timeout
    THEN [gps_ok |-> FALSE, parser_called |-> FALSE,
          gps_summary |-> Summary("gpspipe timed out", "", None, None, <<>>)]
    ELSE IF cp.rc = 127
    THEN [gps_ok |-> FALSE, parser_called |-> FALSE,
          gps_summary |-> Summary("gpspipe not found on remote host", "", None, None, <<>>)]
    ELSE LET out == cp.stdout \o cp.stderr
             r   == parse_gpspipe_output(out)
         IN  IF r.summary # EmptySummary
             THEN [gps_ok |-> r.has_fix, parser_called |-> TRUE, gps_summary |-> r.summary]
             ELSE [gps_ok |-> FALSE, parser_called |-> TRUE,
                   gps_summary |-> IF HeadOfGps(out) # <<>>
                                   THEN Summary("", "", None, None, HeadOfGps(out))
                                   ELSE Summary("no TPV data from gpspipe", "", None, None, <<>>)]

\* run_gps_status, given what run_ssh did; parser_called records whether
\* parse_gpspipe_output ran.
run_gps_status(cp) ==
    IF cp.timeout
    THEN [gps_ok |-> FALSE, parser_called |-> FALSE,
          gps_summary |-> Summary("gpspipe timed out", "", None, None, <<>>)]
    ELSE IF cp.rc = 127 \/ \E i \in 1..Len(cp.stderr) : cp.stderr[i] = NotFoundMarker
    THEN [gps_ok |-> FALSE, parser_called |-> FALSE,
          gps_summary |-> Summary("gpspipe not found on remote host", "", None, None, <<>>)]
    ELSE LET out == cp.stdout \o cp.stderr
             r   == parse_gpspipe_output(out)
         IN  IF r.summary # EmptySummary
             THEN [gps_ok |-> r.has_fix, parser_called |-> TRUE, gps_summary |-> r.summary]
             ELSE [gps_ok |-> FALSE, parser_called |-> TRUE,
                   gps_summary |-> IF HeadOfGps(out) # <<>>
                                   THEN Summary("", "", None, None, HeadOfGps(out))
                                   ELSE Summary("no TPV data from gpspipe", "", None, None, <<>>)]

-----------------------------------------------------------------------------
(* Settings (module level, l.12-27) *)

HOST == "myntp"

MAX_ACCEPTABLE_STRATUM == 4

\* MAX_ABS_OFFSET_SEC = 0.050, in milliseconds
MAX_ABS_OFFSET_SEC == 50

\* CHECK_INTERVAL_SEC, in seconds
CHECK_INTERVAL == 30

CGPS_TIMEOUT_SEC == 8

\* timeout=10 of the two chronyc calls (l.191, l.198, l.287, l.288)
CHRONYC_TIMEOUT == 10

-----------------------------------------------------------------------------
(* The threshold checks of check_ntp_health (l.206-232) *)

\* One entry of `problems`: its text, and the values the f-string puts in it
Problem(msg, leap, stratum, offset, max) ==
    [msg |-> msg, leap |-> leap, stratum |-> stratum, offset |-> offset, max |-> max]

LeapProblem(leap) == Problem("Leap status not Normal", Some(leap), None, None, 0)
StratumProblem(stratum) ==
    Problem("Stratum too high", None, Some(stratum), None, MAX_ACCEPTABLE_STRATUM)
OffsetProblem(offset) ==
    Problem("Time offset too large", None, None, Some(offset), MAX_ABS_OFFSET_SEC)
NoSelectedProblem == Problem("No selected NTP source in chronyc sources", None, None, None, 0)
NoSourcesProblem == Problem("No NTP sources visible in chronyc sources", None, None, None, 0)
NoFixProblem == Problem("GPS has no fix via gpspipe", None, None, None, 0)

\* The six if statements, in the order of the code
LeapBad(leap) == leap = None \/ ~Contains(Val(leap), <<"Normal">>)
StratumBad(stratum) == stratum = None \/ Val(stratum) > MAX_ACCEPTABLE_STRATUM
OffsetBad(offset) == offset = None \/ AbsGreater(Val(offset), MAX_ABS_OFFSET_SEC)

If(cond, problem) == IF cond THEN <<problem>> ELSE <<>>

Problems(trk, src, gps_ok) ==
       If(LeapBad(trk.leap_status), LeapProblem(trk.leap_status))
    \o If(StratumBad(trk.stratum), StratumProblem(trk.stratum))
    \o If(OffsetBad(trk.last_offset_sec), OffsetProblem(trk.last_offset_sec))
    \o If(~src.has_selected, NoSelectedProblem)
    \o If(src.total_sources = 0, NoSourcesProblem)
    \o If(~gps_ok, NoFixProblem)

\* The list `detail`
Detail(trk, src, gps_summary) ==
    [host |-> HOST, leap |-> trk.leap_status, stratum |-> trk.stratum,
     offset |-> trk.last_offset_sec, selected |-> src.selected_line,
     total |-> src.total_sources, gps |-> gps_summary]

\* A message string of the program: its fixed text, the command and the host
\* it names ("" when it names none), and what is joined into it.
Message(text, cmd, host, problems, fields, tail) ==
    [text |-> text, cmd |-> cmd, host |-> host, problems |-> problems,
     fields |-> fields, tail |-> tail]

\* (ok, detail) as returned at l.230-232
Thresholds(trk, src, g) ==
    LET problems == Problems(trk, src, g.gps_ok)
        fields   == Some(Detail(trk, src, g.gps_summary))
    IN  IF problems # <<>>
        THEN [ok |-> FALSE, detail |-> Message("", "", HOST, problems, fields, <<>>)]
        ELSE [ok |-> TRUE, detail |-> Message("OK", "", HOST, <<>>, fields, <<>>)]

\* (False, 'SSH/chronyc ... failed on HOST (IP): stderr head'), l.193 and l.200
FailedDetail(cmd, cp) ==
    Message("SSH/chronyc failed on", cmd, HOST, <<>>, None, HeadOf(cp.stderr))

\* msg of l.299
TimeoutMsg == Message("SSH command timed out contacting", "", HOST, <<>>, None, <<>>)

\* msg of l.303; the exception text is that of the IndexError
ExceptionMsg ==
    Message("Unexpected error during NTP check: list index out of range", "", "",
            <<>>, None, <<>>)

-----------------------------------------------------------------------------
(* What the remote host can answer *)

\* chronyc tracking: scenario A, stratum 9, a key line without colon, a nan
\* offset
TrkGood ==
    << <<"Reference ID", WS, ":", WS, "GPS">>,
       <<"Stratum", WS, ":", WS, "2">>,
       <<"Last offset", WS, ":", WS, "0.002", WS, "seconds">>,
       <<"Leap status", WS, ":", WS, "Normal">> >>
TrkStratum9 ==
    << <<"Stratum", WS, ":", WS, "9">>,
       <<"Last offset", WS, ":", WS, "0.002", WS, "seconds">>,
       <<"Leap status", WS, ":", WS, "Normal">> >>
TrkNoColon ==
    << <<"Stratum", WS, ":", WS, "2">>, <<"Leap status", WS, "Normal">> >>
TrkNan ==
    << <<"Stratum", WS, ":", WS, "2">>,
       <<"Last offset", WS, ":", WS, "nan", WS, "seconds">>,
       <<"Leap status", WS, ":", WS, "Normal">> >>

TrackingReports == {TrkGood, TrkStratum9, TrkNoColon, TrkNan}

\* parse_tracking of each of these reports (and of the empty stdout of a
\* failed command), computed once
TrackingParsed == [t \in TrackingReports \cup {<<>>} |-> parse_tracking(t)]

TrackingOutcomes ==
    {Timeout, Completed(1, <<>>, << <<"ssh:", WS, "refused">> >>)}
      \cup {Completed(0, t, <<>>) : t \in TrackingReports}

\* chronyc sources -n
SrcHeader == <<"MS", WS, "Name/IP", WS, "address">>
SrcRule == <<"=", "=", "=">>
SrcGood ==
    <<SrcHeader, SrcRule, <<"#", "*", WS, "GPS">>, <<"^", "+", WS, "10.0.0.1">> >>
SrcNoneSelected == <<SrcHeader, SrcRule, <<"^", "+", WS, "10.0.0.1">> >>

SourcesReports == {SrcGood, SrcNoneSelected, <<>>}

SourcesOutcomes ==
    {Timeout, Completed(1, <<>>, << <<"ssh:", WS, "refused">> >>)}
      \cup {Completed(0, t, <<>>) : t \in SourcesReports}

\* gpspipe -w
Tpv(mode) == Json("TPV", Some(mode), Some("2025-01-01T00:00:00Z"), Some(45), Some(9))
Sky == Json("SKY", None, None, None, None)

GpsOutcomes ==
    { Timeout,
      Completed(127, <<>>, <<NotFoundMarker>>),
      Completed(127, <<>>, <<>>),
      Completed(1, <<>>, <<NotFoundMarker>>),
      Completed(0, <<Sky, Tpv(3), Noise("gpspipe: done")>>, <<>>),
      Completed(0, <<Tpv(3), Tpv(1)>>, <<>>),
      Completed(124, <<Sky, Tpv(3)>>, <<>>),
      Completed(0, <<Sky>>, <<>>) }

-----------------------------------------------------------------------------
(* main(): the polling loop *)

\* One Command Executor call as the cycle saw it: which of the three commands
\* ("chronyc tracking", "chronyc sources" for `chronyc sources -n`, "gpspipe"
\* for the remote_cmd of run_gps_status) and what run_ssh gave back
Call(cmd, cp) == [cmd |-> cmd, cp |-> cp]

\* What send_email can do with a message: return at l.53-55, send it, or
\* log the SMTP error
EmailOutcomes == {"missing env", "sent", "failed"}

\* send_email as it would be with a second attempt after an SMTP error
send_emailRetries(subject, body) ==
    \E o \in EmailOutcomes :
        emails' =
            IF o = "failed"
            THEN emails \o << [subject |-> subject, body |-> body, outcome |-> o],
                              [subject |-> subject, body |-> body, outcome |-> "sent"] >>
            ELSE Append(emails, [subject |-> subject, body |-> body, outcome |-> o])

\* send_email(subject, body): returns in every case
send_email(subject, body) ==
    \E o \in EmailOutcomes :
        emails' = Append(emails, [subject |-> subject, body |-> body, outcome |-> o])

\* Row as it would be if gps_mode were not taken from gps_ok
RowAlwaysFix(trk, src, g) ==
    [last_offset_sec |-> trk.last_offset_sec, stratum |-> trk.stratum,
     total_sources |-> src.total_sources, leap_status |-> trk.leap_status,
     gps_mode |-> "3D fix",
     selected_source |-> src.selected_line, gps_summary |-> g.gps_summary]

\* The values tuple of the INSERT (l.253-261)
Row(trk, src, g) ==
    [last_offset_sec |-> trk.last_offset_sec, stratum |-> trk.stratum,
     total_sources |-> src.total_sources, leap_status |-> trk.leap_status,
     gps_mode |-> IF g.gps_ok THEN "3D fix" ELSE "No fix",
     selected_source |-> src.selected_line, gps_summary |-> g.gps_summary]

\* db_insert_sample(...): returns in every case
\* What db_insert_sample can do with a row when DB_URL is set: store it, or
\* log the psycopg2 error (l.264-265)
DbOutcomes == {"stored", "failed"}

db_insert_sample(trk, src, g) ==
    IF DB_URL = None
    THEN inserts' = Append(inserts, [row |-> Row(trk, src, g), outcome |-> "skipped"])
    ELSE \E o \in DbOutcomes :
            inserts' = Append(inserts, [row |-> Row(trk, src, g), outcome |-> o])

LoopInit ==
    /\ pc = "tracking"
    /\ DB_URL \in {None, Some("postgresql://")}
    /\ ok = None
    /\ detail = None
    /\ evaluated = FALSE
    /\ tracking = None
    /\ sources = None
    /\ tr = None
    /\ gps = None
    /\ calls = <<>>
    /\ emails = <<>>
    /\ inserts = <<>>
    /\ streak = 0
    /\ streakMails = 0

\* CheckTracking as it would be without the exit code test of l.192-193
CheckTrackingIgnoresExit ==
    /\ pc = "tracking"
    /\ UNCHANGED harnessVars
    /\ \E cp \in TrackingOutcomes :
        /\ calls' = Append(calls, Call("chronyc tracking", cp))
        /\ IF cp.timeout THEN
               /\ pc' = "except TimeoutExpired"
               /\ UNCHANGED <<ok, detail, tracking>>
           ELSE IF TrackingParsed[cp.stdout].raised THEN
               /\ pc' = "except Exception"
               /\ UNCHANGED <<ok, detail, tracking>>
           ELSE
               /\ tracking' = Some(TrackingParsed[cp.stdout].result)
               /\ pc' = "sources"
               /\ UNCHANGED <<ok, detail>>
    /\ UNCHANGED <<DB_URL, evaluated, sources, tr, gps, emails, inserts,
                   streak, streakMails>>

\* check_ntp_health, l.190-195
CheckTracking ==
    /\ pc = "tracking"
    /\ UNCHANGED harnessVars
    /\ \E cp \in TrackingOutcomes :
        /\ calls' = Append(calls, Call("chronyc tracking", cp))
        /\ IF cp.timeout THEN
               /\ pc' = "except TimeoutExpired"
               /\ UNCHANGED <<ok, detail, tracking>>
           ELSE IF cp.rc # 0 THEN
               /\ ok' = Some(FALSE)
               /\ detail' = Some(FailedDetail("chronyc tracking", cp))
               /\ pc' = "not ok"
               /\ UNCHANGED tracking
           ELSE IF TrackingParsed[cp.stdout].raised THEN
               /\ pc' = "except Exception"
               /\ UNCHANGED <<ok, detail, tracking>>
           ELSE
               /\ tracking' = Some(TrackingParsed[cp.stdout].result)
               /\ pc' = "sources"
               /\ UNCHANGED <<ok, detail>>
    /\ UNCHANGED <<DB_URL, evaluated, sources, tr, gps, emails, inserts,
                   streak, streakMails>>

\* CheckSources as it would be without the exit code test of l.199-200
CheckSourcesIgnoresExit ==
    /\ pc = "sources"
    /\ UNCHANGED harnessVars
    /\ \E cp \in SourcesOutcomes :
        /\ calls' = Append(calls, Call("chronyc sources", cp))
        /\ IF cp.timeout THEN
               /\ pc' = "except TimeoutExpired"
               /\ UNCHANGED <<ok, detail, sources, tracking>>
           ELSE
               /\ sources' = Some(parse_sources(cp.stdout))
               /\ pc' = "gps"
               /\ UNCHANGED <<ok, detail, tracking>>
    /\ UNCHANGED <<DB_URL, evaluated, tr, gps, emails, inserts,
                   streak, streakMails>>

\* check_ntp_health, l.197-201
CheckSources ==
    /\ pc = "sources"
    /\ UNCHANGED harnessVars
    /\ \E cp \in SourcesOutcomes :
        /\ calls' = Append(calls, Call("chronyc sources", cp))
        /\ IF cp.timeout THEN
               /\ pc' = "except TimeoutExpired"
               /\ UNCHANGED <<ok, detail, sources, tracking>>
           ELSE IF cp.rc # 0 THEN
               /\ ok' = Some(FALSE)
               /\ detail' = Some(FailedDetail("chronyc sources", cp))
               /\ pc' = "not ok"
               /\ tracking' = None
               /\ UNCHANGED sources
           ELSE
               /\ sources' = Some(parse_sources(cp.stdout))
               /\ pc' = "gps"
               /\ UNCHANGED <<ok, detail, tracking>>
    /\ UNCHANGED <<DB_URL, evaluated, tr, gps, emails, inserts,
                   streak, streakMails>>

\* check_ntp_health, l.203-204: run_gps_status()
CheckGps ==
    /\ pc = "gps"
    /\ UNCHANGED harnessVars
    /\ \E cp \in GpsOutcomes :
        /\ calls' = Append(calls, Call("gpspipe", cp))
        /\ gps' = Some(run_gps_status(cp))
    /\ pc' = "thresholds"
    /\ UNCHANGED <<DB_URL, ok, detail, evaluated, tracking, sources, tr, emails,
                   inserts, streak, streakMails>>

\* CheckThresholds as it would be if main inserted the sample that was
\* evaluated instead of collecting a second one
CheckThresholdsSingleSample ==
    /\ pc = "thresholds"
    /\ UNCHANGED harnessVars
    /\ LET r == Thresholds(Val(tracking), Val(sources), Val(gps)) IN
        /\ ok' = Some(r.ok)
        /\ detail' = Some(r.detail)
        /\ pc' = IF r.ok THEN "insert" ELSE "not ok"
    /\ evaluated' = TRUE
    /\ UNCHANGED <<DB_URL, tracking, sources, gps, tr, calls, emails, inserts,
                   streak, streakMails>>

\* check_ntp_health, l.206-232, and the branch of main at l.283
CheckThresholds ==
    /\ pc = "thresholds"
    /\ UNCHANGED harnessVars
    /\ LET r == Thresholds(Val(tracking), Val(sources), Val(gps)) IN
        /\ ok' = Some(r.ok)
        /\ detail' = Some(r.detail)
        /\ pc' = IF r.ok THEN "tracking2" ELSE "not ok"
    /\ evaluated' = TRUE
    /\ tracking' = None
    /\ sources' = None
    /\ gps' = None
    /\ UNCHANGED <<DB_URL, tr, calls, emails, inserts, streak, streakMails>>

\* Collect1 as it would be without the inner try of l.286: the timeout
\* reaches `except subprocess.TimeoutExpired` of main
Collect1TimeoutEscapes ==
    /\ pc = "tracking2"
    /\ UNCHANGED harnessVars
    /\ \E cp \in TrackingOutcomes :
        /\ calls' = Append(calls, Call("chronyc tracking", cp))
        /\ IF cp.timeout
           THEN pc' = "except TimeoutExpired" /\ UNCHANGED tr
           ELSE pc' = "sources2" /\ tr' = Some(cp.stdout)
    /\ UNCHANGED <<DB_URL, ok, detail, evaluated, tracking, sources, gps, emails,
                   inserts, streak, streakMails>>

\* main, l.287: a timeout is caught at l.293
Collect1 ==
    /\ pc = "tracking2"
    /\ UNCHANGED harnessVars
    /\ \E cp \in TrackingOutcomes :
        /\ calls' = Append(calls, Call("chronyc tracking", cp))
        /\ IF cp.timeout
           THEN pc' = "sleep" /\ UNCHANGED tr
           ELSE pc' = "sources2" /\ tr' = Some(cp.stdout)
    /\ UNCHANGED <<DB_URL, ok, detail, evaluated, tracking, sources, gps, emails,
                   inserts, streak, streakMails>>

\* Collect2 as it would be if the second pass tested exit codes as
\* check_ntp_health does
Collect2ChecksExit ==
    /\ pc = "sources2"
    /\ UNCHANGED harnessVars
    /\ \E cp \in SourcesOutcomes :
        /\ calls' = Append(calls, Call("chronyc sources", cp))
        /\ IF cp.timeout \/ cp.rc # 0 \/ TrackingParsed[Val(tr)].raised THEN
               /\ pc' = "sleep"
               /\ UNCHANGED <<tracking, sources>>
           ELSE
               /\ tracking' = Some(TrackingParsed[Val(tr)].result)
               /\ sources' = Some(parse_sources(cp.stdout))
               /\ pc' = "gps2"
    /\ tr' = None
    /\ UNCHANGED <<DB_URL, ok, detail, evaluated, gps, emails, inserts,
                   streak, streakMails>>

\* main, l.288-290: an exception of parse_tracking is caught at l.293 too
Collect2 ==
    /\ pc = "sources2"
    /\ UNCHANGED harnessVars
    /\ \E cp \in SourcesOutcomes :
        /\ calls' = Append(calls, Call("chronyc sources", cp))
        /\ IF cp.timeout \/ TrackingParsed[Val(tr)].raised THEN
               /\ pc' = "sleep"
               /\ UNCHANGED <<tracking, sources>>
           ELSE
               /\ tracking' = Some(TrackingParsed[Val(tr)].result)
               /\ sources' = Some(parse_sources(cp.stdout))
               /\ pc' = "gps2"
    /\ tr' = None
    /\ UNCHANGED <<DB_URL, ok, detail, evaluated, gps, emails, inserts,
                   streak, streakMails>>

\* main, l.291
Collect3 ==
    /\ pc = "gps2"
    /\ UNCHANGED harnessVars
    /\ \E cp \in GpsOutcomes :
        /\ calls' = Append(calls, Call("gpspipe", cp))
        /\ gps' = Some(run_gps_status(cp))
    /\ pc' = "insert"
    /\ UNCHANGED <<DB_URL, ok, detail, evaluated, tracking, sources, tr, emails,
                   inserts, streak, streakMails>>

\* Insert as it would be if a psycopg2 error were caught neither at l.264 nor
\* at l.293 and reached `except Exception` of main
InsertFailureEscapes ==
    /\ pc = "insert"
    /\ UNCHANGED harnessVars
    /\ db_insert_sample(Val(tracking), Val(sources), Val(gps))
    /\ pc' = IF inserts'[Len(inserts')].outcome = "failed"
             THEN "except Exception" ELSE "sleep"
    /\ UNCHANGED <<DB_URL, ok, detail, evaluated, tracking, sources, tr, gps, calls,
                   emails, streak, streakMails>>

\* main, l.292
Insert ==
    /\ pc = "insert"
    /\ UNCHANGED harnessVars
    /\ db_insert_sample(Val(tracking), Val(sources), Val(gps))
    /\ pc' = "sleep"
    /\ UNCHANGED <<DB_URL, ok, detail, evaluated, tracking, sources, tr, gps, calls,
                   emails, streak, streakMails>>

\* AlertNotOk as it would be with a suppression window: no second alert
\* while the previous cycle alerted
AlertNotOkSuppressed ==
    /\ pc = "not ok"
    /\ UNCHANGED harnessVars
    /\ IF streak = 0
       THEN send_email("NTP health alert on observium.andrea-house.com", Val(detail))
       ELSE UNCHANGED emails
    /\ pc' = "sleep"
    /\ UNCHANGED <<DB_URL, ok, detail, evaluated, tracking, sources, tr, gps, calls,
                   inserts, streak, streakMails>>

\* main, l.295-297
AlertNotOk ==
    /\ pc = "not ok"
    /\ UNCHANGED harnessVars
    /\ send_email("NTP health alert on observium.andrea-house.com", Val(detail))
    /\ pc' = "sleep"
    /\ UNCHANGED <<DB_URL, ok, detail, evaluated, tracking, sources, tr, gps, calls,
                   inserts, streak, streakMails>>

\* AlertTimeout as it would be if `except Exception` stood first and took
\* the TimeoutExpired too
AlertTimeoutAsException ==
    /\ pc = "except TimeoutExpired"
    /\ UNCHANGED harnessVars
    /\ send_email("NTP health alert exception", ExceptionMsg)
    /\ pc' = "sleep"
    /\ UNCHANGED <<DB_URL, ok, detail, evaluated, tracking, sources, tr, gps, calls,
                   inserts, streak, streakMails>>

\* AlertTimeout as it would be if the timeout were logged and no more
AlertTimeoutLogsOnly ==
    /\ pc = "except TimeoutExpired"
    /\ UNCHANGED harnessVars
    /\ pc' = "sleep"
    /\ UNCHANGED <<DB_URL, ok, detail, evaluated, tracking, sources, tr, gps, calls,
                   emails, inserts, streak, streakMails>>

\* main, l.298-301
AlertTimeout ==
    /\ pc = "except TimeoutExpired"
    /\ UNCHANGED harnessVars
    /\ send_email("NTP health alert timeout", TimeoutMsg)
    /\ pc' = "sleep"
    /\ UNCHANGED <<DB_URL, ok, detail, evaluated, tracking, sources, tr, gps, calls,
                   inserts, streak, streakMails>>

\* AlertException as it would be without the `except Exception` clause: the
\* exception leaves main and the process ends
AlertExceptionEscapes ==
    /\ pc = "except Exception"
    /\ UNCHANGED harnessVars
    /\ pc' = "terminated"
    /\ UNCHANGED <<DB_URL, ok, detail, evaluated, tracking, sources, tr, gps, calls,
                   emails, inserts, streak, streakMails>>

\* main, l.302-305
AlertException ==
    /\ pc = "except Exception"
    /\ UNCHANGED harnessVars
    /\ send_email("NTP health alert exception", ExceptionMsg)
    /\ pc' = "sleep"
    /\ UNCHANGED <<DB_URL, ok, detail, evaluated, tracking, sources, tr, gps, calls,
                   inserts, streak, streakMails>>

\* Did the cycle that is ending end without a healthy verdict
EndedUnhealthy == ok # Some(TRUE)

\* main, l.306-307 and back to l.280: the next cycle starts with fresh locals
Sleep ==
    /\ pc = "sleep"
    /\ UNCHANGED harnessVars
    /\ pc' = "tracking"
    /\ ok' = None
    /\ detail' = None
    /\ evaluated' = FALSE
    /\ calls' = <<>>
    /\ emails' = <<>>
    /\ inserts' = <<>>
    /\ IF ~EndedUnhealthy THEN streak' = 0 /\ streakMails' = 0
       ELSE IF streak >= MaxStreak THEN streak' = 1 /\ streakMails' = Len(emails)
       ELSE streak' = streak + 1 /\ streakMails' = streakMails + Len(emails)
    /\ tracking' = None
    /\ sources' = None
    /\ tr' = None
    /\ gps' = None
    /\ UNCHANGED DB_URL

Next ==
    \/ CheckTracking \/ CheckSources \/ CheckGps \/ CheckThresholds
    \/ Collect1 \/ Collect2 \/ Collect3 \/ Insert
    \/ AlertNotOk \/ AlertTimeout \/ AlertException
    \/ Sleep

Init == LoopInit /\ pin = None /\ pout = None

Spec == Init /\ [][Next]_vars

\* The loop is the only thread and every statement of it returns: each
\* Command Executor call returns or times out, sleep returns.
LiveSpec == Spec /\ WF_vars(Next)

-----------------------------------------------------------------------------
(* parse_tracking on its own *)

TrackLines ==
    { <<"Leap status", WS, ":", WS, "Normal">>,
      <<"Leap status", ":", "Not synchronised">>,
      <<"Leap status", ":">>,
      <<WS, "Leap status", WS, "Normal">>,
      <<"Stratum", WS, ":", WS, "2">>,
      <<WS, "Stratum", ":", "9", WS>>,
      <<"Stratum", ":", WS, "x">>,
      <<"Stratum", WS, "2">>,
      <<"Last offset", WS, ":", WS, "0.002", WS, "seconds">>,
      <<"Last offset", ":", "-0.060">>,
      <<"Last offset", ":", WS, "x", WS, "seconds">>,
      <<"Last offset", ":", WS>>,
      <<"Last offset">>,
      <<"Last offset", ":", "nan">>,
      <<"Reference ID", WS, ":", WS, "GPS">>,
      <<WS>> }

TrackingInit ==
    /\ LoopInit
    /\ DB_URL = None
    /\ pin \in SeqsUpTo(TrackLines, MaxTrackLines)
    /\ pout = None

\* tracking = parse_tracking(text)
CallParseTracking ==
    /\ pout = None
    /\ pout' = Some(parse_tracking(pin))
    /\ UNCHANGED <<pin, loopVars>>

TrackingNext == CallParseTracking

TrackingSpec == TrackingInit /\ [][TrackingNext]_vars

-----------------------------------------------------------------------------
(* The threshold checks on their own *)

LeapValues ==
    {None, Some(<<>>), Some(<<"Normal">>), Some(<<"Not synchronised">>),
     Some(<<"Insert second">>)}
StratumValues == {None, Some(2), Some(4), Some(5), Some(9)}
OffsetValues ==
    {None, Some(Num(2)), Some(Num(50)), Some(Num(51)), Some(Num(-50)),
     Some(Num(-60)), Some(NaN)}

EvalInit ==
    /\ LoopInit
    /\ DB_URL = None
    /\ pin \in [trk : [leap_status : LeapValues, stratum : StratumValues,
                       last_offset_sec : OffsetValues],
                src : {parse_sources(r) : r \in SourcesReports},
                g   : {run_gps_status(cp) : cp \in GpsOutcomes}]
    /\ pout = None

\* l.206-232 with these locals
CallThresholds ==
    /\ pout = None
    /\ pout' = Some(Thresholds(pin.trk, pin.src, pin.g))
    /\ UNCHANGED <<pin, loopVars>>

EvalNext == CallThresholds

EvalSpec == EvalInit /\ [][EvalNext]_vars

-----------------------------------------------------------------------------
(* parse_gpspipe_output on its own, one line of the stream at a time *)

GpsLines ==
    { BlankLine, Noise("gpspipe: x"), BadJson, Sky,
      Json("SKY", Some(3), None, None, None),
      Json("TPV", None, Some("2025-01-01T00:00:00Z"), None, None),
      Tpv(0), Tpv(1), Tpv(2), Tpv(3) }

GpsInit ==
    /\ LoopInit
    /\ DB_URL = None
    /\ pin \in SeqsUpTo(GpsLines, MaxGpsLines)
    /\ pout = [i |-> 1, st |-> GpsStart, ret |-> None]

\* One iteration of `for line in text.splitlines()`
GpsConsume ==
    /\ pout.ret = None
    /\ pout.i <= Len(pin)
    /\ pout' = [pout EXCEPT !.i = @ + 1, !.st = GpsLine(@, pin[pout.i])]
    /\ UNCHANGED <<pin, loopVars>>

\* l.179-186
GpsFinish ==
    /\ pout.ret = None
    /\ pout.i > Len(pin)
    /\ pout' = [pout EXCEPT !.ret = Some(GpsReturn(pout.st))]
    /\ UNCHANGED <<pin, loopVars>>

GpsNext == GpsConsume \/ GpsFinish

GpsSpec == GpsInit /\ [][GpsNext]_vars

-----------------------------------------------------------------------------
(* run_gps_status on its own: what run_ssh gave back is the input *)

StatusExitCodes == {0, 1, 127}

StatusStderr == {<<>>, <<NotFoundMarker>>, <<Noise("gpspipe: x")>>}

GpsStatusInit ==
    /\ LoopInit
    /\ DB_URL = None
    /\ pin \in {Timeout} \cup
               {Completed(rc, out, err) : rc \in StatusExitCodes,
                                          out \in SeqsUpTo(GpsLines, MaxOutLines),
                                          err \in StatusStderr}
    /\ pout = None

\* gps_ok, gps_summary = run_gps_status()
CallRunGpsStatus ==
    /\ pout = None
    /\ pout' = Some(run_gps_status(pin))
    /\ UNCHANGED <<pin, loopVars>>

GpsStatusNext == CallRunGpsStatus

GpsStatusSpec == GpsStatusInit /\ [][GpsStatusNext]_vars

-----------------------------------------------------------------------------
(* parse_sources on its own, and the threshold checks on what it returns *)

SrcLines ==
    { <<>>,
      <<WS>>,
      SrcHeader,
      <<WS, "MS", WS, "Name/IP", WS, "address">>,
      <<"Name/IP", WS, "address">>,
      SrcRule,
      <<"^", "*", WS, "10.0.0.1">>,
      <<WS, "^", "*", WS, "10.0.0.3", WS>>,
      <<"#", "*", WS, "GPS">>,
      <<"^", "+", WS, "10.0.0.2">>,
      <<"^", "-", WS, "10.0.0.4", "*", WS, "x">>,
      <<"#", "*">> }

SourcesInit ==
    /\ LoopInit
    /\ DB_URL = None
    /\ pin \in SeqsUpTo(SrcLines, MaxSrcLines)
    /\ pout = [sources |-> None, verdict |-> None]

\* sources = parse_sources(sr.stdout)
CallParseSources ==
    /\ pout.sources = None
    /\ pout' = [pout EXCEPT !.sources = Some(parse_sources(pin))]
    /\ UNCHANGED <<pin, loopVars>>

\* l.206-232 with this `sources`, a tracking sample and a fix status
SourcesThresholds ==
    /\ pout.sources # None
    /\ pout.verdict = None
    /\ \E trk \in {TrackingParsed[TrkGood].result, TrackingParsed[TrkStratum9].result},
          cp \in {Timeout, Completed(0, <<Tpv(3)>>, <<>>)} :
          pout' = [pout EXCEPT
                     !.verdict = Some(Thresholds(trk, Val(pout.sources), run_gps_status(cp)))]
    /\ UNCHANGED <<pin, loopVars>>

SourcesNext == CallParseSources \/ SourcesThresholds

SourcesSpec == SourcesInit /\ [][SourcesNext]_vars

-----------------------------------------------------------------------------
(* The loop of main() against the clock.  pin is the number of Command     *)
(* Executor calls the cycle makes (1 to 6, see the loop above); pout holds *)
(* where main is, the calls made, the seconds since the cycle started, and *)
(* for the previous cycle its duration and the seconds between its end and *)
(* the start of this one.  Only run_ssh and time.sleep take time.          *)

\* The timeout of the k-th call of a cycle: calls 3 and 6 are run_gps_status
CallTimeout(k) == IF k \in {3, 6} THEN CGPS_TIMEOUT_SEC + 3 ELSE CHRONYC_TIMEOUT

TimeInit ==
    /\ LoopInit
    /\ DB_URL = None
    /\ pin \in 1..6
    /\ pout = [pos |-> "cycle", k |-> 0, elapsed |-> 0, last |-> None, waited |-> None]

\* run_ssh: the command returns at once, or after half its timeout, or is
\* cut off at its timeout
TimedCall ==
    /\ pout.pos = "cycle"
    /\ pout.k < pin
    /\ \E d \in {0, CallTimeout(pout.k + 1) \div 2, CallTimeout(pout.k + 1)} :
          pout' = [pout EXCEPT !.k = @ + 1, !.elapsed = @ + d]
    /\ UNCHANGED <<pin, loopVars>>

\* The cycle has made its calls; main goes on to l.306
TimedFinish ==
    /\ pout.pos = "cycle"
    /\ pout.k = pin
    /\ pout' = [pout EXCEPT !.pos = "sleep"]
    /\ UNCHANGED <<pin, loopVars>>

\* TimedSleep as it would be if the sleep were what is left of the interval
\* since the start of the cycle
TimedSleepRemainder ==
    /\ pout.pos = "sleep"
    /\ pout' = [pos |-> "cycle", k |-> 0, elapsed |-> 0, last |-> Some(pout.elapsed),
                waited |-> Some(IF pout.elapsed > CHECK_INTERVAL THEN 0
                                ELSE CHECK_INTERVAL - pout.elapsed)]
    /\ pin' \in 1..6
    /\ UNCHANGED loopVars

\* time.sleep(CHECK_INTERVAL), l.307, and the start of the next cycle
TimedSleep ==
    /\ pout.pos = "sleep"
    /\ pout' = [pos |-> "cycle", k |-> 0, elapsed |-> 0, last |-> Some(pout.elapsed),
                waited |-> Some(CHECK_INTERVAL)]
    /\ pin' \in 1..6
    /\ UNCHANGED loopVars

TimeNext == TimedCall \/ TimedFinish \/ TimedSleep

TimeSpec == TimeInit /\ [][TimeNext]_vars

-----------------------------------------------------------------------------
(* Properties *)

Min(a, b) == IF a < b THEN a ELSE b

Range(seq) == {seq[i] : i \in 1..Len(seq)}

\* The i-th Command Executor call of the cycle.  Calls 1 to 3 are those of
\* check_ntp_health (the evaluation pass), calls 4 to 6 those of l.287-291.
TimedOut(i) == Len(calls) >= i /\ calls[i].cp.timeout
NonZero(i) == Len(calls) >= i /\ ~calls[i].cp.timeout /\ calls[i].cp.rc # 0
Failed(i) == TimedOut(i) \/ NonZero(i)

\* The tracking report of call i makes parse_tracking raise
Raises(i) == Len(calls) >= i /\ ~calls[i].cp.timeout /\ TrackingParsed[calls[i].cp.stdout].raised

\* The remote side said that gpspipe is missing at call i
NotFound(i) ==
    /\ Len(calls) >= i
    /\ ~calls[i].cp.timeout
    /\ calls[i].cp.rc = 127 \/ NotFoundMarker \in Range(calls[i].cp.stderr)

\* C1: no fault of a cycle ends the loop.  A timeout or an exception of the
\* evaluation pass is caught in main and answered with exactly one send_email
\* call (subject "... timeout" or "... exception") before the sleep, and
\* whatever the commands, the sink and the notifier do, the loop starts a next
\* cycle again and again.
C1_LoopSurvivesEveryFault ==
    /\ []<>(pc = "tracking")
    /\ [](pc = "sleep" /\ (TimedOut(1) \/ TimedOut(2)) =>
            Len(emails) = 1 /\ emails[1].subject = "NTP health alert timeout")
    /\ [](pc = "sleep" /\ Raises(1) /\ calls[1].cp.rc = 0 =>
            Len(emails) = 1 /\ emails[1].subject = "NTP health alert exception")

\* C1 witness: a cycle in which parse_tracking raised, the alert for it could
\* not be sent either, and the loop is about to sleep
C1_Witness ==
    /\ pc = "sleep"
    /\ Raises(1)
    /\ Len(emails) = 1
    /\ emails[1].outcome = "failed"
    /\ streak >= 1

\* C2: a cycle that ends unhealthy (verdict not ok, or tracking/sources
\* returned non-zero) has made exactly one send_email call whose body is the
\* whole `detail` (all problems and all fields when the thresholds ran) when
\* it reaches the sleep, and N consecutive alerting cycles have made N calls.
C2_EveryUnhealthyCycleAlerts ==
    /\ pc = "sleep" /\ (NonZero(1) \/ NonZero(2)) => ok = Some(FALSE)
    /\ pc = "sleep" /\ ok = Some(FALSE) =>
        /\ Len(emails) = 1
        /\ emails[1].body = Val(detail)
        /\ evaluated => /\ emails[1].body.problems # <<>>
                        /\ emails[1].body.fields # None
    /\ streakMails = streak

\* C2 witness: an unhealthy cycle right after MaxStreak alerting cycles, with
\* its own alert
C2_Witness ==
    /\ pc = "sleep"
    /\ ok = Some(FALSE)
    /\ evaluated
    /\ streak = MaxStreak
    /\ streakMails = MaxStreak
    /\ Len(emails) = 1

\* C3 as stated: when any of the three calls of the evaluation pass timed out
\* or returned non-zero, the thresholds are not evaluated.
C3_AnyFailedCallAborts ==
    \A i \in 1..Min(3, Len(calls)) : Failed(i) => ~evaluated /\ pc # "thresholds"

\* C3 amended: a failed tracking or sources call (non-zero exit or timeout)
\* ends check_ntp_health at once, with no further call and no thresholds;
\* the thresholds run only after both returned 0; and once the fix-status
\* call was made the thresholds run whatever it did.
C3_TrackingOrSourcesFailureAborts ==
    /\ Failed(1) => Len(calls) = 1 /\ ~evaluated /\ pc # "thresholds"
    /\ Failed(2) => Len(calls) = 2 /\ ~evaluated /\ pc # "thresholds"
    /\ pc = "thresholds" \/ evaluated =>
          Len(calls) >= 3 /\ ~Failed(1) /\ ~Failed(2)
    /\ Len(calls) >= 3 => pc = "thresholds" \/ evaluated

\* C3 witness: the fix-status call failed and the thresholds were evaluated
C3_Witness == evaluated /\ Failed(3) /\ pc = "not ok"

\* C4 as stated: a timeout of any of the three calls skips the thresholds,
\* and the alert names the command that timed out.
C4_TimeoutSkipsThresholdsAndNamesCommand ==
    pc = "sleep" =>
        \A i \in 1..Min(3, Len(calls)) :
            TimedOut(i) => /\ ~evaluated
                           /\ Len(emails) = 1
                           /\ emails[1].body.cmd = calls[i].cmd

\* C4 amended: a timeout of the tracking or the sources call skips the
\* thresholds and is answered with the timeout alert, which names the host
\* and no command; a timeout of the fix-status call is turned into "no fix",
\* the thresholds run and the alert carries the no-fix problem.
C4_TimeoutAlert ==
    pc = "sleep" =>
        /\ TimedOut(1) \/ TimedOut(2) =>
            /\ ~evaluated
            /\ ok = None
            /\ Len(emails) = 1
            /\ emails[1].subject = "NTP health alert timeout"
            /\ emails[1].body.text = "SSH command timed out contacting"
            /\ emails[1].body.host = HOST
            /\ emails[1].body.cmd = ""
        /\ TimedOut(3) =>
            /\ evaluated
            /\ ok = Some(FALSE)
            /\ NoFixProblem \in Range(Val(detail).problems)
            /\ Len(emails) = 1
            /\ emails[1].body = Val(detail)

\* C4 witness: the sources call timed out and the timeout alert was made
C4_Witness == pc = "sleep" /\ TimedOut(2) /\ Len(emails) = 1

\* C5 as stated: every cycle with verdict ok has called the sink when it
\* reaches the sleep.
C5_HealthyCycleInserts == pc = "sleep" /\ ok = Some(TRUE) => Len(inserts) = 1

\* The second pass raised: its tracking or sources call timed out, or
\* parse_tracking raised on its tracking report
SecondPassRaised == TimedOut(4) \/ TimedOut(5) \/ (Len(calls) >= 5 /\ Raises(4))

\* C5 amended: a cycle with verdict ok calls db_insert_sample exactly once
\* before the sleep, also when commands of the second pass return non-zero or
\* its fix-status call times out, unless the second tracking or sources call
\* times out or parse_tracking raises on the second tracking report: then it
\* makes no call.
C5_HealthyCycleInsertsUnlessSecondPassRaises ==
    pc = "sleep" /\ ok = Some(TRUE) =>
        /\ Len(calls) >= 4
        /\ SecondPassRaised => inserts = <<>> /\ Len(calls) <= 5
        /\ ~SecondPassRaised => Len(inserts) = 1 /\ Len(calls) = 6

\* C5 witness: a healthy cycle whose second pass saw a non-zero exit and a
\* fix-status timeout, and inserted
C5_Witness ==
    /\ pc = "sleep"
    /\ ok = Some(TRUE)
    /\ NonZero(4)
    /\ TimedOut(6)
    /\ Len(inserts) = 1

\* C6 as stated: every stored row holds values that pass the thresholds.
C6_StoredRowsAreHealthy ==
    \A i \in 1..Len(inserts) :
        inserts[i].outcome = "stored" =>
            /\ inserts[i].row.gps_mode # "No fix"
            /\ ~LeapBad(inserts[i].row.leap_status)
            /\ ~StratumBad(inserts[i].row.stratum)
            /\ ~OffsetBad(inserts[i].row.last_offset_sec)
            /\ inserts[i].row.selected_source # None

\* C6 amended: a row is written only in a cycle whose evaluated sample had no
\* problem, and it holds the values of the second sample (calls 4 to 6),
\* which is not evaluated: gps_mode is "No fix" exactly when the second
\* fix-status result has no fix, and the other columns are what the parsers
\* make of the second tracking and sources output.
C6_StoredRowIsSecondSample ==
    inserts # <<>> =>
        /\ Len(inserts) = 1
        /\ ok = Some(TRUE)
        /\ Val(detail).problems = <<>>
        /\ Len(calls) = 6
        /\ LET row == inserts[1].row
               trk == TrackingParsed[calls[4].cp.stdout].result
               src == parse_sources(calls[5].cp.stdout)
               g   == run_gps_status(calls[6].cp)
           IN  /\ row.last_offset_sec = trk.last_offset_sec
               /\ row.stratum = trk.stratum
               /\ row.leap_status = trk.leap_status
               /\ row.total_sources = src.total_sources
               /\ row.selected_source = src.selected_line
               /\ row.gps_mode = "No fix" <=> ~g.gps_ok
               /\ row.gps_mode = "3D fix" <=> g.gps_ok
               /\ row.gps_summary = g.gps_summary

\* C6 witness: a stored row with no fix, no stratum and no selected source,
\* in a cycle whose evaluated sample had stratum 2 and a selected source
\* and a fix
C6_Witness ==
    /\ inserts # <<>>
    /\ inserts[1].outcome = "stored"
    /\ inserts[1].row.gps_mode = "No fix"
    /\ inserts[1].row.stratum = None
    /\ inserts[1].row.selected_source = None
    /\ Val(Val(detail).fields).stratum = Some(2)
    /\ Val(Val(detail).fields).selected # None

\* A recognized key without colon, or with a value that does not parse
Malformed(line) ==
    \/ /\ \/ StartsWith(Strip(line), <<"Leap status">>)
          \/ StartsWith(Strip(line), <<"Stratum">>)
          \/ StartsWith(Strip(line), <<"Last offset">>)
       /\ ~HasColon(line)
    \/ StartsWith(Strip(line), <<"Stratum">>) /\ line[Len(line)] = "x"
    \/ StartsWith(Strip(line), <<"Last offset">>) /\ line[Len(line)] \in {":", WS}

\* C7 as stated: parse_tracking returns for every report, and a report of one
\* malformed recognized line gives a result with every field null.
C7_ParseTrackingNeverFails ==
    pout # None =>
        /\ ~Val(pout).raised
        /\ Len(pin) = 1 /\ Malformed(pin[1]) => Val(pout).result = EmptyTracking

\* The six conditions of the threshold rule, as the rule states them
OffsetWithin(o) ==
    /\ o # None
    /\ ~Val(o).nan
    /\ Val(o).ms <= MAX_ABS_OFFSET_SEC
    /\ 0 - Val(o).ms <= MAX_ABS_OFFSET_SEC

RuleHolds(in) ==
    << in.trk.leap_status # None /\ Contains(Val(in.trk.leap_status), <<"Normal">>),
       in.trk.stratum # None /\ Val(in.trk.stratum) <= MAX_ACCEPTABLE_STRATUM,
       OffsetWithin(in.trk.last_offset_sec),
       in.src.has_selected,
       in.src.total_sources > 0,
       in.g.gps_ok >>

RuleText ==
    << "Leap status not Normal", "Stratum too high", "Time offset too large",
       "No selected NTP source in chronyc sources",
       "No NTP sources visible in chronyc sources", "GPS has no fix via gpspipe" >>

\* The texts of the violated conditions among conditions k..6, in order
RECURSIVE Violated(_, _)
Violated(in, k) ==
    IF k > 6 THEN <<>>
    ELSE (IF RuleHolds(in)[k] THEN <<>> ELSE <<RuleText[k]>>) \o Violated(in, k + 1)

\* C8 as stated: ok iff all six conditions hold, the problems are those of
\* the violated conditions in the fixed order, and the detail fields are
\* there in both outcomes.
C8_OkIffAllSixHold ==
    pout # None =>
        /\ Val(pout).ok <=> \A k \in 1..6 : RuleHolds(pin)[k]
        /\ [i \in 1..Len(Val(pout).detail.problems) |-> Val(pout).detail.problems[i].msg]
              = Violated(pin, 1)
        /\ Val(pout).detail.fields # None

\* The fix reports with a mode among the lines consumed so far
ModeLines == {i \in 1..(pout.i - 1) : /\ pin[i].kind = "json"
                                      /\ pin[i].obj.class = "TPV"
                                      /\ pin[i].obj.mode # None}
LastSeenMode ==
    IF ModeLines = {} THEN None
    ELSE pin[CHOOSE i \in ModeLines : \A j \in ModeLines : j <= i].obj.mode

\* C9: after any number of lines, last_mode is the mode of the last TPV
\* record with a mode among them (None when there is none), has_fix says
\* whether that mode is >= 2, tpv_count is the number of TPV records, and
\* parse_gpspipe_output returns just these; so a line that is no TPV record
\* changes none of the three, wherever it stands.
C9_LastModeWins ==
    /\ pout.st.last_mode = LastSeenMode
    /\ pout.st.has_fix <=> (LastSeenMode # None /\ Val(LastSeenMode) >= 2)
    /\ pout.st.tpv_count =
           Cardinality({i \in 1..(pout.i - 1) : pin[i].kind = "json" /\ pin[i].obj.class = "TPV"})
    /\ pout.ret # None =>
        /\ Val(pout.ret).last_mode = LastSeenMode
        /\ Val(pout.ret).has_fix <=> (LastSeenMode # None /\ Val(LastSeenMode) >= 2)
        /\ Val(pout.ret).tpv_count = pout.st.tpv_count

\* C9 witness: mode 2, then mode 3, then a line that does not decode; the
\* function returned a fix with last mode 3
C9_Witness ==
    /\ pin = <<Tpv(2), Tpv(3), BadJson>>
    /\ pout.ret # None
    /\ Val(pout.ret).has_fix
    /\ Val(pout.ret).last_mode = Some(3)
    /\ Val(pout.ret).tpv_count = 2

\* C10: when the fix-status call of the evaluation pass returned 127 or wrote
\* the gpspipe-not-found marker, run_gps_status gave (False, 'gpspipe not
\* found on remote host') without calling the parser, main caught nothing,
\* the thresholds ran, and the cycle ended not ok with the no-fix problem in
\* the alert.
C10_ToolNotFound ==
    NotFound(3) =>
        /\ pc \notin {"except TimeoutExpired", "except Exception"}
        /\ pc = "thresholds" =>
              /\ ~Val(gps).gps_ok
              /\ ~Val(gps).parser_called
              /\ Val(gps).gps_summary.text = "gpspipe not found on remote host"
        /\ pc # "thresholds" =>
              /\ evaluated
              /\ ok = Some(FALSE)
              /\ NoFixProblem \in Range(Val(detail).problems)
              /\ Val(Val(detail).fields).gps.text = "gpspipe not found on remote host"
        /\ pc = "sleep" => Len(emails) = 1 /\ emails[1].body = Val(detail)

\* C10 witness: exit code 1 with the marker on stderr, everything else
\* healthy, and the cycle ended with the alert
C10_Witness ==
    /\ pc = "sleep"
    /\ NotFound(3)
    /\ calls[3].cp.rc = 1
    /\ Val(detail).problems = <<NoFixProblem>>
    /\ Len(emails) = 1

\* A fix report that carries a mode
HasMode(line) == line.kind = "json" /\ line.obj.class = "TPV" /\ line.obj.mode # None

\* What run_gps_status hands to the parser: stdout, then stderr
StatusOut == pin.stdout \o pin.stderr

\* C11: when no line of the fix-status output is a fix report with a mode
\* (and the command neither timed out nor reported the tool missing),
\* parse_gpspipe_output returns has_fix False with the empty summary, and
\* run_gps_status returns, after calling the parser, gps_ok False with a
\* description that is not empty: the first three non-blank lines of the
\* output, or 'no TPV data from gpspipe' when every line is blank.
C11_NoModeIsNoFixData ==
    /\ pout # None
    /\ ~pin.timeout
    /\ pin.rc # 127
    /\ NotFoundMarker \notin Range(pin.stderr)
    /\ \A i \in 1..Len(StatusOut) : ~HasMode(StatusOut[i])
    => /\ parse_gpspipe_output(StatusOut).summary = EmptySummary
       /\ ~parse_gpspipe_output(StatusOut).has_fix
       /\ Val(pout).parser_called
       /\ ~Val(pout).gps_ok
       /\ Val(pout).gps_summary # EmptySummary
       /\ Val(pout).gps_summary.mode = ""
       /\ IF \A i \in 1..Len(StatusOut) : StatusOut[i].kind = "blank"
          THEN Val(pout).gps_summary.text = "no TPV data from gpspipe"
          ELSE /\ Val(pout).gps_summary.text = ""
               /\ Val(pout).gps_summary.head = HeadOfGps(StatusOut)
               /\ Val(pout).gps_summary.head # <<>>

\* C11 witness: a stream of one fix report without a mode and some noise gave
\* no fix, described by the head of the output
C11_Witness ==
    /\ pout # None
    /\ ~pin.timeout
    /\ pin.rc = 0
    /\ pin.stdout = <<Json("TPV", None, Some("2025-01-01T00:00:00Z"), None, None),
                      Noise("gpspipe: x")>>
    /\ pin.stderr = <<>>
    /\ ~Val(pout).gps_ok
    /\ Len(Val(pout).gps_summary.head) = 2

\* The sink call of this cycle did not store the row: the connection or the
\* INSERT failed, or no sink is configured
SinkFailed == inserts # <<>> /\ inserts[Len(inserts)].outcome \in {"failed", "skipped"}

\* C12: when db_insert_sample did not store the row, it returned all the
\* same: the cycle keeps its verdict ok and its 'OK' detail, no send_email
\* call is made in it, main is at the sleep and not in an except clause, and
\* the loop goes on to the next cycle.  Without DATABASE_URL the call is
\* always of this kind.
C12_SinkFailureSwallowed ==
    /\ [](SinkFailed => /\ pc = "sleep"
                        /\ ok = Some(TRUE)
                        /\ Val(detail).text = "OK"
                        /\ Val(detail).problems = <<>>
                        /\ emails = <<>>
                        /\ Len(inserts) = 1)
    /\ [](inserts # <<>> /\ DB_URL = None => inserts[1].outcome = "skipped")
    /\ (SinkFailed ~> pc = "tracking" /\ emails = <<>>)

\* C12 witness: the INSERT failed in a healthy cycle, which is at its sleep
\* without an alert
C12_Witness ==
    /\ pc = "sleep"
    /\ Len(inserts) = 1
    /\ inserts[1].outcome = "failed"
    /\ ok = Some(TRUE)
    /\ emails = <<>>

\* A send_email call of this cycle sent nothing: SMTP error, or the SES
\* settings are missing
NotifyFailed == \E i \in 1..Len(emails) : emails[i].outcome \in {"failed", "missing env"}

\* C13: when send_email sent nothing, it returned all the same: main is at
\* the sleep and not in an except clause, the call was the only one of the
\* cycle, nothing was inserted instead, and the loop goes on to the next
\* cycle.
C13_NotifyFailureSwallowed ==
    /\ [](NotifyFailed => /\ pc = "sleep"
                          /\ Len(emails) = 1
                          /\ inserts = <<>>)
    /\ (NotifyFailed ~> pc = "tracking" /\ emails = <<>>)

\* C13 witness: an unhealthy verdict whose alert could not be sent for want
\* of the SES settings, the cycle at its sleep
C13_Witness ==
    /\ pc = "sleep"
    /\ ok = Some(FALSE)
    /\ evaluated
    /\ Len(emails) = 1
    /\ emails[1].outcome = "missing env"


\* The commands of this cycle's Command Executor calls, in order
Cmds == [i \in 1..Len(calls) |-> calls[i].cmd]

ThreeCmds == <<"chronyc tracking", "chronyc sources", "gpspipe">>

\* No call of this cycle timed out or returned non-zero
NoCallFailed == \A i \in 1..Len(calls) : ~Failed(i)

\* C14 as stated: a cycle that got a verdict and none of whose calls failed
\* has issued exactly the three calls tracking, sources, fix-status when it
\* reaches the sleep, whether the verdict is ok or not.
C14_ThreeCallsPerCycle ==
    pc = "sleep" /\ evaluated /\ NoCallFailed => Cmds = ThreeCmds

\* C14 amended: a cycle none of whose calls failed has issued, when it
\* reaches the sleep, exactly the three calls tracking, sources, fix-status
\* if its verdict is not ok, and these three twice over (six calls) if its
\* verdict is ok; short of that only when parse_tracking raised: one call if
\* on the first tracking report, five if on the second.  No cycle issues more
\* than six calls, and the calls of every cycle go in this order.
C14_ThreeCallsThenThreeMoreWhenHealthy ==
    /\ Len(calls) <= 6
    /\ Cmds = SubSeq(ThreeCmds \o ThreeCmds, 1, Len(calls))
    /\ pc = "sleep" /\ NoCallFailed =>
        /\ ok = Some(FALSE) => evaluated /\ Cmds = ThreeCmds
        /\ ok = Some(TRUE) =>
              /\ evaluated
              /\ IF Raises(4) THEN Len(calls) = 5 ELSE Cmds = ThreeCmds \o ThreeCmds
        /\ ok = None => Raises(1) /\ Len(calls) = 1

\* C14 witness: a healthy cycle at its sleep after six calls that all
\* returned 0
C14_Witness ==
    /\ pc = "sleep"
    /\ ok = Some(TRUE)
    /\ NoCallFailed
    /\ Len(calls) = 6
    /\ Len(inserts) = 1


\* The lines of the report that are neither blank nor start, once stripped,
\* with one of the two header prefixes
DataRows ==
    {i \in 1..Len(pin) : /\ Strip(pin[i]) # <<>>
                         /\ Strip(pin[i])[1] \notin {"MS", "Name/IP"}}

\* The selected marker on a row: '^*' at its start, or an asterisk followed
\* by a space anywhere in it
CarriesMarker(row) ==
    \E i \in 1..Len(row) :
        /\ row[i] = "*"
        /\ \/ i = 2 /\ row[1] = "^"
           \/ i < Len(row) /\ row[i + 1] = WS

MarkedRows == {i \in DataRows : CarriesMarker(Strip(pin[i]))}

C20_SelectedImpliesSources ==
    /\ pout.sources # None =>
          /\ Val(pout.sources).has_selected => Val(pout.sources).total_sources > 0
          /\ Val(pout.sources).selected_line # None <=> Val(pout.sources).has_selected
    /\ pout.verdict # None =>
          (NoSourcesProblem \in Range(Val(pout.verdict).detail.problems)
              => NoSelectedProblem \in Range(Val(pout.verdict).detail.problems))

\* C20 witness: a report of header lines only; the verdict holds both
\* problems, the no-selected-source one first
C20_Witness ==
    /\ pin = <<SrcHeader, <<"Name/IP", WS, "address">> >>
    /\ pout.verdict # None
    /\ Val(pout.verdict).detail.problems = <<NoSelectedProblem, NoSourcesProblem>>


\* C16 as stated: a cycle that follows a cycle longer than the interval
\* started with no delay after it.
C16_NoDelayAfterLongCycle ==
    pout.last # None /\ Val(pout.last) > CHECK_INTERVAL => pout.waited = Some(0)

\* C16 amended: every cycle but the first started exactly CHECK_INTERVAL
\* seconds after the previous one finished, however long that one took, so
\* its start is the previous start plus the previous duration plus the
\* interval; a cycle makes its calls one after the other and is over before
\* the sleep begins.
C16_FullSleepAfterEveryCycle ==
    /\ pout.last # None <=> pout.waited # None
    /\ pout.waited # None => pout.waited = Some(CHECK_INTERVAL)
    /\ pout.pos = "sleep" => pout.k = pin
    /\ pout.k <= pin
    /\ pout.elapsed <= 4 * CHRONYC_TIMEOUT + 2 * (CGPS_TIMEOUT_SEC + 3)

\* C16 witness: a cycle that starts the whole interval after a cycle of six
\* calls that all ran into their timeout, 62 seconds
C16_Witness ==
    /\ pout.pos = "cycle"
    /\ pout.k = 0
    /\ pout.last = Some(4 * CHRONYC_TIMEOUT + 2 * (CGPS_TIMEOUT_SEC + 3))
    /\ Val(pout.last) > CHECK_INTERVAL
    /\ pout.waited = Some(CHECK_INTERVAL)


\* Call i of the cycle returned with exit code 0
ReturnedZero(i) == ~calls[i].cp.timeout /\ calls[i].cp.rc = 0

\* This step issues a Command Executor call (and sees it return)
IssuesCall == calls' # calls /\ calls' # <<>>

\* This step makes the sink call or the notifier call of the cycle
SinkOrNotifierStep == emails' \notin {emails, <<>>} \/ inserts' \notin {inserts, <<>>}

\* C17: in the evaluation pass the sources command is issued only after the
\* tracking command returned 0 and the fix-status command only after the
\* sources command returned 0, in this order.  A step of main issues one call
\* and has its result before the next step: no step issues two, none issues
\* a call while it calls the sink or the notifier, and once a cycle has
\* called the sink or the notifier it issues no call any more: the next call
\* is the first one of the next cycle, after the sleep.
C17_CallsAreSequential ==
    /\ [](/\ Len(calls) >= 1 => calls[1].cmd = "chronyc tracking"
          /\ Len(calls) >= 2 => calls[2].cmd = "chronyc sources" /\ ReturnedZero(1)
          /\ Len(calls) >= 3 => calls[3].cmd = "gpspipe" /\ ReturnedZero(2)
          /\ emails # <<>> \/ inserts # <<>> => pc = "sleep")
    /\ [][/\ IssuesCall => /\ \E c \in {calls'[Len(calls')]} : calls' = Append(calls, c)
                           /\ emails' = emails /\ emails = <<>>
                           /\ inserts' = inserts /\ inserts = <<>>
          /\ SinkOrNotifierStep => calls' = calls /\ calls # <<>> /\ pc' = "sleep"
          /\ calls # <<>> /\ calls' = <<>> => pc = "sleep" /\ pc' = "tracking"]_vars

\* C17 witness: tracking and sources returned 0, the fix-status command was
\* issued third and returned 124, and the thresholds are next
C17_Witness ==
    /\ pc = "thresholds"
    /\ Len(calls) = 3
    /\ ReturnedZero(1)
    /\ ReturnedZero(2)
    /\ calls[3].cp.rc = 124


\* C18: no cycle calls both the sink and the notifier.  The sink is called
\* only in a cycle whose verdict is ok, and such a cycle never calls the
\* notifier nor enters an except clause of main, also when its second pass
\* raised (a timeout of its tracking or sources call, or parse_tracking on
\* its tracking report): then it reaches the sleep with neither call made.
C18_InsertExcludesNotify ==
    /\ ~(emails # <<>> /\ inserts # <<>>)
    /\ inserts # <<>> => ok = Some(TRUE)
    /\ emails # <<>> => ok # Some(TRUE)
    /\ ok = Some(TRUE) =>
          pc \notin {"not ok", "except TimeoutExpired", "except Exception"}
    /\ SecondPassRaised => pc = "sleep" /\ ok = Some(TRUE) /\ emails = <<>> /\ inserts = <<>>

\* C18 witness: the sources call of the second pass timed out, and the cycle
\* is at its sleep with no alert and no row
C18_Witness ==
    /\ pc = "sleep"
    /\ ok = Some(TRUE)
    /\ TimedOut(5)
    /\ emails = <<>>
    /\ inserts = <<>>

\* C19: no cycle makes more than one send_email call.  At its sleep a cycle
\* whose verdict is ok has made none, and every other cycle exactly one: with
\* the health subject when check_ntp_health returned not ok, the timeout
\* subject when the tracking or sources call of the evaluation pass timed
\* out, the exception subject when parse_tracking raised in it.
C19_OneAlertPerUnhealthyCycle ==
    /\ Len(emails) <= 1
    /\ pc = "sleep" =>
          /\ ok = Some(TRUE) => emails = <<>>
          /\ ok = Some(FALSE) =>
                /\ Len(emails) = 1
                /\ emails[1].subject = "NTP health alert on observium.andrea-house.com"
          /\ ok = None =>
                /\ Len(emails) = 1
                /\ TimedOut(1) \/ TimedOut(2) \/ Raises(1)
                /\ TimedOut(1) \/ TimedOut(2) =>
                      emails[1].subject = "NTP health alert timeout"
                /\ Raises(1) => emails[1].subject = "NTP health alert exception"

\* C19 witness: the tracking call timed out and the one alert of the cycle
\* was sent
C19_Witness ==
    /\ pc = "sleep"
    /\ ok = None
    /\ TimedOut(1)
    /\ Len(emails) = 1
    /\ emails[1].outcome = "sent"

====
